---- MODULE Spec2Model ----
(***************************************************************************)
(* A model of s3_download.py: the resumable download of the objects of a   *)
(* set of S3 buckets to a local directory tree, with optional deletion of  *)
(* the remote object after a verified download.                            *)
(*                                                                         *)
(* Python strings (bucket names, keys, paths) are sequences of one-letter  *)
(* strings.  The local filesystem is a function from resolved paths        *)
(* (sequences of components) to entries; it follows POSIX semantics.       *)
(* The remote store is the set of objects currently present; the content   *)
(* of an object is fixed by the object.                                    *)
(***************************************************************************)
EXTENDS Integers, Sequences, FiniteSets, TLC

-----------------------------------------------------------------------------
(* Bounds of the model *)

\* objects returned per page of list_objects_v2 (1000 in S3)
PageSize == 2

-----------------------------------------------------------------------------
(* Python string helpers *)

Last(s) == s[Len(s)]

startswith(s, p) == Len(p) <= Len(s) /\ SubSeq(s, 1, Len(p)) = p

\* a suffix test that looks at the front of the name
endswith_at_front(s, p) == Len(p) <= Len(s) /\ SubSeq(s, 1, Len(p)) = p

endswith(s, p) == Len(p) <= Len(s) /\ SubSeq(s, Len(s) - Len(p) + 1, Len(s)) = p

\* `p in s`
contains(s, p) == \E i \in 0..(Len(s) - Len(p)) : SubSeq(s, i + 1, i + Len(p)) = p

Min(a, b) == IF a <= b THEN a ELSE b

\* code points of the letters that occur in names (S3 lists keys in UTF-8 order)
Ord(c) ==
    CASE c = "/" -> 47
      [] c = "_" -> 95
      [] c = "a" -> 97
      [] c = "b" -> 98
      [] c = "c" -> 99
      [] c = "d" -> 100
      [] c = "e" -> 101
      [] c = "f" -> 102
      [] c = "i" -> 105
      [] c = "l" -> 108
      [] c = "m" -> 109
      [] c = "n" -> 110
      [] c = "o" -> 111
      [] c = "t" -> 116
      [] c = "x" -> 120
      [] c = "y" -> 121
      [] OTHER -> 122

RECURSIVE StrLess(_, _)
StrLess(s, t) ==
    IF t = <<>> THEN FALSE
    ELSE IF s = <<>> THEN TRUE
    ELSE IF Head(s) = Head(t) THEN StrLess(Tail(s), Tail(t))
    ELSE Ord(Head(s)) < Ord(Head(t))

\* the elements of a set of strings in ascending (listing) order
RECURSIVE SortedSeq(_)
SortedSeq(S) ==
    IF S = {} THEN <<>>
    ELSE LET m == CHOOSE x \in S : \A y \in S \ {x} : StrLess(x, y)
         IN  <<m>> \o SortedSeq(S \ {m})

RECURSIVE SumSeq(_)
SumSeq(s) == IF s = <<>> THEN 0 ELSE Head(s) + SumSeq(Tail(s))

-----------------------------------------------------------------------------
(* os.path *)

\* os.path.join(a, b) on POSIX
join2(a, b) ==
    IF b # <<>> /\ Head(b) = "/" THEN b
    ELSE IF a = <<>> \/ Last(a) = "/" THEN a \o b
    ELSE a \o <<"/">> \o b

join(a, b, c) == join2(join2(a, b), c)

RECURSIVE rfind(_, _)
\* index of the last "/" among the first n letters of p, 0 if none
rfind(p, n) == IF n = 0 THEN 0 ELSE IF p[n] = "/" THEN n ELSE rfind(p, n - 1)

RECURSIVE rstripSlash(_)
rstripSlash(p) ==
    IF p # <<>> /\ Last(p) = "/" THEN rstripSlash(SubSeq(p, 1, Len(p) - 1)) ELSE p

\* os.path.dirname
dirname(p) ==
    LET head == SubSeq(p, 1, rfind(p, Len(p)))
    IN  IF head # <<>> /\ rstripSlash(head) # <<>> THEN rstripSlash(head) ELSE head

RECURSIVE split(_, _, _)
split(p, cur, acc) ==
    IF p = <<>> THEN (IF cur = <<>> THEN acc ELSE Append(acc, cur))
    ELSE IF Head(p) = "/"
         THEN split(Tail(p), <<>>, IF cur = <<>> THEN acc ELSE Append(acc, cur))
         ELSE split(Tail(p), Append(cur, Head(p)), acc)

\* the components the kernel resolves a path into (names hold no "." or "..")
Components(p) == split(p, <<>>, <<>>)

TrailingSlash(p) == p # <<>> /\ Last(p) = "/"

-----------------------------------------------------------------------------
(* The local filesystem: [resolved path -> entry], POSIX semantics.        *)
(* The working directory (no component) always exists.                     *)

NoEntry == [kind |-> "none", data |-> <<>>]
DirEntry == [kind |-> "dir", data |-> <<>>]
FileEntry(d) == [kind |-> "file", data |-> d]

\* every proper ancestor of c is a directory
Resolves(f, c) ==
    \A i \in 1..(Len(c) - 1) :
        SubSeq(c, 1, i) \in DOMAIN f /\ f[SubSeq(c, 1, i)].kind = "dir"

\* os.stat: NoEntry stands for ENOENT / ENOTDIR
stat(f, p) ==
    LET c == Components(p)
    IN  IF c = <<>> THEN DirEntry
        ELSE IF ~Resolves(f, c) \/ c \notin DOMAIN f THEN NoEntry
        ELSE IF TrailingSlash(p) /\ f[c].kind # "dir" THEN NoEntry
        ELSE f[c]

\* an existence test that takes "name/" for "name"
exists_ignoring_slash(f, p) == stat(f, rstripSlash(p)).kind # "none"

exists(f, p) == stat(f, p).kind # "none"

isdir(f, p) == stat(f, p).kind = "dir"

isfile(f, p) == stat(f, p).kind = "file"

\* os.path.getsize: the length of a file; ds is what the filesystem reports
\* for a directory
getsize(f, p, ds) == IF isdir(f, p) THEN ds ELSE Len(stat(f, p).data)

Put(f, c, e) == [q \in DOMAIN f \cup {c} |-> IF q = c THEN e ELSE f[q]]

Remove(f, c) == [q \in DOMAIN f \ {c} |-> f[q]]

\* os.makedirs(p, exist_ok=True): [ok, fs].  It raises when a component is a
\* plain file, or when the environment refuses (envfail).
makedirs(f, p, envfail) ==
    LET c == Components(p)
        pre == {SubSeq(c, 1, i) : i \in 1..Len(c)}
        blocked == \E q \in pre : q \in DOMAIN f /\ f[q].kind # "dir"
    IN  IF blocked \/ (envfail /\ ~isdir(f, p))
        THEN [ok |-> FALSE, fs |-> f]
        ELSE [ok |-> TRUE,
              fs |-> [q \in DOMAIN f \cup pre |-> IF q \in DOMAIN f THEN f[q] ELSE DirEntry]]

\* os.rename(src, dst) of a plain file: [ok, fs].  An existing plain file at
\* dst is replaced; a directory at dst makes the call raise.
rename(f, src, dst, envfail) ==
    LET s == Components(src)
        d == Components(dst)
    IN  IF envfail \/ ~isfile(f, src) \/ ~Resolves(f, d) \/ isdir(f, dst)
        THEN [ok |-> FALSE, fs |-> f]
        ELSE [ok |-> TRUE, fs |-> Put(Remove(f, s), d, f[s])]

\* open(p, "ab") then write(data): [ok, fs].  written < Len(data) is a write
\* cut short by the environment (the file is created by the open).
append(f, p, data, written) ==
    LET c == Components(p)
        old == IF c \in DOMAIN f THEN f[c].data ELSE <<>>
    IN  IF c = <<>> \/ TrailingSlash(p) \/ ~Resolves(f, c) \/ isdir(f, p)
        THEN [ok |-> FALSE, fs |-> f]
        ELSE [ok |-> written = Len(data),
              fs |-> Put(f, c, FileEntry(old \o SubSeq(data, 1, written)))]

-----------------------------------------------------------------------------
(* The remote store *)

download_dir == <<"d">>

\* the suffix ensure_directory appends to a conflicting file's name
Suffix == <<"_", "f", "i", "l", "e", "_", "c", "o", "n", "f", "l", "i", "c", "t">>

\* the objects that may exist remotely: bucket, key and byte size
World ==
    << [Bucket |-> <<"x">>, Key |-> <<"a">>, Size |-> 3],
       [Bucket |-> <<"x">>, Key |-> <<"a", "/", "b">>, Size |-> 0],
       [Bucket |-> <<"x">>, Key |-> <<"a">> \o Suffix, Size |-> 2],
       [Bucket |-> <<"x">>, Key |-> <<"a", "/">>, Size |-> 0],
       [Bucket |-> <<"x">>, Key |-> <<"e", "/">>, Size |-> 0] >>

ObjIds == 1..Len(World)

\* the buckets of the account (the first one holds no object)
Fleet == {<<"t", "x">>, <<"x">>}

\* what the filesystem may report as the size of a directory
DirSizes == {1, 4}

\* the bytes of an object: byte i of object o is 10 * o + i
Content(o) == [i \in 1..World[o].Size |-> 10 * o + i]

Lookup(rem, b, k) == {o \in rem : World[o].Bucket = b /\ World[o].Key = k}

\* a dict's get(k, default)
get(d, k, default) == IF k \in DOMAIN d THEN d[k] ELSE default

NoDict == [k \in {} |-> 0]

\* the configurations (config.yaml) of the model
Configs ==
    { NoDict,
      [delete_after_download |-> TRUE,
       ignore_pattern |-> [starts_with |-> << <<"t">> >>]] }

-----------------------------------------------------------------------------
(* The functions of s3_download.py *)

\* the first rule that matches, as <<category, pattern>>, or <<>>
RECURSIVE first_match(_, _, _)
first_match(name, cats, pats) ==
    IF cats = <<>> THEN <<>>
    ELSE LET cat == Head(cats)
             ps == get(pats, cat, <<>>)
             hit(p) == CASE cat = "starts_with" -> startswith(name, p)
                         [] cat = "ends_with" -> endswith(name, p)
                         [] OTHER -> contains(name, p)
             js == {j \in 1..Len(ps) : hit(ps[j])}
         IN  IF js # {}
             THEN <<cat, ps[CHOOSE j \in js : \A i \in js : j <= i]>>
             ELSE first_match(name, Tail(cats), pats)

should_ignore_bucket(bucket_name, ignore_patterns) ==
    first_match(bucket_name, <<"starts_with", "ends_with", "contains">>,
                ignore_patterns) # <<>>

\* the handlers without the one around get_object
caught_not_get_object(site, kind) ==
    CASE site = "list_buckets" -> kind = "ClientError"
      [] site = "list_objects" -> kind = "ClientError"
      [] site = "ensure_directory" -> TRUE
      [] site = "delete_object" -> kind = "ClientError"
      [] site = "makedirs" -> TRUE
      [] OTHER -> FALSE

\* the handlers: whether an exception of this kind ("ClientError", or
\* "Error" for any other exception) raised by this call is caught around it
caught(site, kind) ==
    CASE site = "list_buckets" -> kind = "ClientError"
      [] site = "list_objects" -> kind = "ClientError"
      [] site = "ensure_directory" -> TRUE
      [] site = "get_object" -> kind = "ClientError"
      [] site = "delete_object" -> kind = "ClientError"
      [] site = "makedirs" -> TRUE
      [] OTHER -> FALSE

ensure_directory(f, path, rfail, mfail) ==
    IF exists(f, path)
    THEN IF isdir(f, path)
         THEN [ok |-> TRUE, fs |-> f]
         ELSE LET r == rename(f, path, path \o Suffix, rfail)
              IN  IF r.ok THEN makedirs(r.fs, path, mfail)
                  ELSE [ok |-> FALSE, fs |-> f]
    ELSE makedirs(f, path, mfail)

\* delete_s3_object: [raised, remote, requested]; outcome is what
\* delete_object does: "ok", "ClientError" or "Error" (any other exception)
delete_s3_object(rem, b, k, delete_file, outcome) ==
    IF delete_file
    THEN [raised |-> outcome # "ok" /\ ~caught("delete_object", outcome),
          remote |-> IF outcome = "ok" THEN rem \ Lookup(rem, b, k) ELSE rem,
          requested |-> TRUE]
    ELSE [raised |-> FALSE, remote |-> rem, requested |-> FALSE]

\* list_bucket_objects: <<file_objects, dir_objects>>.  The listing comes in
\* pages of PageSize keys in ascending order; failpage > 0 is the page whose
\* request raises ClientError.
list_bucket_objects(rem, b, failpage) ==
    LET keys == SortedSeq({World[o].Key : o \in {i \in rem : World[i].Bucket = b}})
        n == IF failpage = 0 THEN Len(keys)
             ELSE Min(Len(keys), (failpage - 1) * PageSize)
        obj(k) == [Key |-> k,
                   Size |-> World[CHOOSE o \in Lookup(rem, b, k) : TRUE].Size]
        objs == [i \in 1..n |-> obj(keys[i])]
    IN  << SelectSeq(objs, LAMBDA x : ~endswith(x.Key, <<"/">>)),
           SelectSeq(objs, LAMBDA x : endswith(x.Key, <<"/">>)) >>

\* the number of pages of a bucket's listing (an empty bucket has one)
Pages(rem, b) ==
    LET n == Cardinality({i \in rem : World[i].Bucket = b})
    IN  IF n = 0 THEN 1 ELSE (n + PageSize - 1) \div PageSize

\* 8 MiB in the program; 2 bytes here, with objects of up to 3 bytes
chunk_size == 2

\* a transfer that always starts from byte 0
local_size_zero(f, local_path, ds) == 0

\* the resume offset: the length of the local file, 0 without one
local_size(f, local_path, ds) ==
    IF exists(f, local_path) THEN getsize(f, local_path, ds) ELSE 0

\* a loop that goes on at downloaded = expected_size
loop_continues_at_end(dl, expected_size) == dl <= expected_size

\* the guard of the download loop
loop_continues(dl, expected_size) == dl < expected_size

\* a return value that is always true
completed_always(dl, expected_size) == TRUE

\* the test after the loop: the value of `success` the call returns
completed(dl, expected_size) == dl >= expected_size

already_downloaded(current_local_size, expected_size) ==
    current_local_size >= expected_size

\* a chunk one byte too long
end_byte_off_by_one(dl, expected_size) == Min(dl + chunk_size, expected_size - 1)

end_byte(dl, expected_size) == Min(dl + chunk_size - 1, expected_size - 1)

\* a cursor that moves by the size of a chunk
advance_by_chunk(dl, data) == dl + chunk_size

\* downloaded += len(data)
advance(dl, data) == dl + Len(data)

\* a percentage without the test for total_bytes = 0: the division raises
percentage_unguarded(done, total_bytes) ==
    [raised |-> total_bytes = 0,
     value |-> IF total_bytes = 0 THEN 0 ELSE (done * 100) \div total_bytes]

\* int((done / total_bytes) * 100) if total_bytes > 0 else 0, and whether
\* its evaluation raises
percentage(done, total_bytes) ==
    [raised |-> FALSE,
     value |-> IF total_bytes > 0 THEN (done * 100) \div total_bytes ELSE 0]

\* the bytes get_object returns for Range bytes=start-end when the service
\* returns n bytes of the range
range_data(o, start, n) == SubSeq(Content(o), start + 1, start + n)

\* a test that only looks for the local file
verified_exists_only(success, f, local_path, file_size, ds) == exists(f, local_path)

\* no test at all
verified_always(success, f, local_path, file_size, ds) == TRUE

\* a counter that grows by the bytes the call moved
downloaded_bytes_by_moved(done, size, new_bytes) == done + new_bytes

\* downloaded_bytes += file_size
downloaded_bytes_after(done, size, new_bytes) == done + size

\* the completeness test before deletion
verified(success, f, local_path, file_size, ds) ==
    success /\ exists(f, local_path) /\ getsize(f, local_path, ds) >= file_size

-----------------------------------------------------------------------------
(* State *)

VARIABLES
    fs,                  \* the local filesystem
    dirsize,             \* the size the filesystem reports for a directory
    remote,              \* the objects present remotely (ids into World)
    config,              \* the loaded configuration
    pc,                  \* where the run is
    buckets,             \* list_and_download_all_buckets: buckets still to visit
    bucket_name,         \* download_bucket_objects: its bucket
    file_objects,        \* download_bucket_objects: the listed content objects
    dir_objects,         \* download_bucket_objects: the listed markers
    idx,                 \* index of the current content object
    midx,                \* index of the current marker
    total_bytes,
    downloaded_bytes,
    downloaded,          \* download_file_resumable: the loop's cursor
    new_bytes_downloaded,
    result,              \* what download_file_resumable returned, and for which key
    \* what happened, recorded for the properties
    exc,                 \* the call whose exception ended the run
    call,                \* the current call of download_file_resumable, as it began
    req_log,             \* the ranges the current call requested
    del_log,             \* the delete_object requests of this run
    fetch_failed,        \* keys of this run whose fetch failed after bytes were written
    marker_failed,       \* markers of this run whose directory could not be made
    list_failed,         \* buckets of this run whose listing failed
    touched,             \* buckets of this run something was done for
    ens,                 \* the last ensure_directory call
    fs_pre,              \* the filesystem before it
    faulted,             \* some call of this run failed or fell short
    verified_idx,        \* indices of the content objects of this bucket that
                         \* passed the completeness test
    \* what happened in this run or an earlier one
    fully_downloaded,    \* objects verified with their whole content in a local
                         \* file, and remote ever since
    \* functions called on their own, with arguments of any kind
    ig,                  \* a call of should_ignore_bucket
    tw                   \* two calls of download_file_resumable, side by side

prog == <<pc, buckets, bucket_name, file_objects, dir_objects, idx, midx,
          total_bytes, downloaded_bytes, downloaded, new_bytes_downloaded, result>>
hist == <<exc, call, req_log, del_log, fetch_failed, marker_failed, list_failed,
          touched, ens, fs_pre, faulted, verified_idx>>
past == <<fully_downloaded>>
units == <<ig, tw>>
vars == <<fs, dirsize, remote, config, prog, hist, past, units>>

NoResult == [key |-> <<>>, success |-> FALSE, new_bytes |-> 0]
NoCall == [active |-> FALSE, k |-> 0, pre |-> NoEntry, full |-> TRUE, failure |-> "none"]
NoEns == [path |-> <<>>, was_file |-> FALSE, ok |-> FALSE]
NoFs == [q \in {} |-> NoEntry]

\* the locals of the loop body of download_bucket_objects
obj == file_objects[idx]
key == obj.Key
file_size == get(obj, "Size", 0)
local_path == join(download_dir, bucket_name, key)
local_dir == dirname(local_path)
delete_file == get(config, "delete_after_download", FALSE)

NoIg == [at |-> "none"]
NoTw == [at |-> "none"]

\* the program before its first run
ProgramInit ==
    /\ fs = NoFs
    /\ dirsize \in DirSizes
    /\ remote = {}
    /\ config \in Configs
    /\ pc = "idle"
    /\ buckets = <<>>
    /\ bucket_name = <<>>
    /\ file_objects = <<>>
    /\ dir_objects = <<>>
    /\ idx = 1
    /\ midx = 1
    /\ total_bytes = 0
    /\ downloaded_bytes = 0
    /\ downloaded = 0
    /\ new_bytes_downloaded = 0
    /\ result = NoResult
    /\ exc = "none"
    /\ call = NoCall
    /\ req_log = <<>>
    /\ del_log = {}
    /\ fetch_failed = {}
    /\ marker_failed = {}
    /\ list_failed = {}
    /\ touched = {}
    /\ ens = NoEns
    /\ fs_pre = NoFs
    /\ faulted = FALSE
    /\ verified_idx = {}
    /\ fully_downloaded = {}

Init ==
    /\ ProgramInit
    /\ ig = NoIg
    /\ tw = NoTw

\* an uncaught exception ends the run
Raise(site) == pc' = "raised" /\ exc' = site

-----------------------------------------------------------------------------
(* The environment: between runs somebody puts an object into a bucket *)

PutObject ==
    /\ UNCHANGED <<past, units>>
    /\ pc = "idle"
    /\ \E o \in ObjIds \ remote : remote' = remote \cup {o}
    /\ UNCHANGED <<fs, dirsize, config, prog, hist>>

-----------------------------------------------------------------------------
(* list_and_download_all_buckets *)

Kinds == {"ClientError", "Error"}
Outcomes == {"ok"} \cup Kinds

\* the program starts: list_buckets
Start ==
    /\ UNCHANGED verified_idx
    /\ UNCHANGED <<past, units>>
    /\ pc = "idle"
    /\ \E o \in Outcomes :
         /\ faulted' = (o # "ok")
         /\ IF o = "ok"
            THEN /\ buckets' = SortedSeq(Fleet)
                 /\ pc' = IF buckets' = <<>> THEN "done" ELSE "buckets"
                 /\ exc' = "none"
            ELSE /\ buckets' = <<>>
                 /\ IF caught("list_buckets", o) THEN pc' = "done" /\ exc' = "none"
                    ELSE Raise("list_buckets")
    /\ UNCHANGED <<fs, dirsize, remote, config, bucket_name, file_objects,
                   dir_objects, idx, midx, total_bytes, downloaded_bytes,
                   downloaded, new_bytes_downloaded, result, call, req_log,
                   del_log, fetch_failed, marker_failed, list_failed, touched,
                   ens, fs_pre>>

\* the process ends, and its memory with it
ProcessEnds ==
    /\ pc' = "idle"
    /\ buckets' = <<>>
    /\ bucket_name' = <<>>
    /\ file_objects' = <<>>
    /\ dir_objects' = <<>>
    /\ idx' = 1
    /\ midx' = 1
    /\ total_bytes' = 0
    /\ downloaded_bytes' = 0
    /\ downloaded' = 0
    /\ new_bytes_downloaded' = 0
    /\ result' = NoResult
    /\ call' = NoCall
    /\ req_log' = <<>>
    /\ del_log' = {}
    /\ fetch_failed' = {}
    /\ marker_failed' = {}
    /\ list_failed' = {}
    /\ touched' = {}
    /\ ens' = NoEns
    /\ fs_pre' = NoFs
    /\ faulted' = FALSE
    /\ verified_idx' = {}
    /\ UNCHANGED <<dirsize, remote, config, past, units>>

\* the program returns, or an uncaught exception ends it
Exit ==
    /\ pc \in {"done", "raised"}
    /\ ProcessEnds
    /\ exc' = "none"
    /\ UNCHANGED fs

\* the loop over the buckets is over
FleetDone ==
    /\ UNCHANGED <<past, units>>
    /\ pc = "buckets"
    /\ buckets = <<>>
    /\ pc' = "done"
    /\ UNCHANGED <<fs, dirsize, remote, config, buckets, bucket_name,
                   file_objects, dir_objects, idx, midx, total_bytes,
                   downloaded_bytes, downloaded, new_bytes_downloaded, result, hist>>

SkipBucket ==
    /\ UNCHANGED <<past, units>>
    /\ pc = "buckets"
    /\ buckets # <<>>
    /\ should_ignore_bucket(Head(buckets), get(config, "ignore_pattern", NoDict))
    /\ buckets' = Tail(buckets)
    /\ UNCHANGED <<fs, dirsize, remote, config, pc, bucket_name,
                   file_objects, dir_objects, idx, midx, total_bytes,
                   downloaded_bytes, downloaded, new_bytes_downloaded, result, hist>>

-----------------------------------------------------------------------------
(* download_bucket_objects *)

\* the call, up to the first loop: the listing and the totals
ListObjects ==
    /\ UNCHANGED <<past, units>>
    /\ pc = "buckets"
    /\ buckets # <<>>
    /\ ~should_ignore_bucket(Head(buckets), get(config, "ignore_pattern", NoDict))
    /\ buckets' = Tail(buckets)
    /\ bucket_name' = Head(buckets)
    /\ idx' = 1
    /\ midx' = 1
    /\ downloaded_bytes' = 0
    /\ verified_idx' = {}
    /\ \E failpage \in 0..Pages(remote, Head(buckets)), kind \in Kinds :
         /\ list_failed' = IF failpage = 0 THEN list_failed
                           ELSE list_failed \cup {Head(buckets)}
         /\ faulted' = (faulted \/ failpage # 0)
         /\ IF failpage = 0 \/ caught("list_objects", kind)
            THEN LET l == list_bucket_objects(remote, Head(buckets), failpage)
                 IN  /\ file_objects' = l[1]
                     /\ dir_objects' = l[2]
                     /\ total_bytes' =
                          SumSeq([i \in 1..Len(l[1]) |-> get(l[1][i], "Size", 0)])
                     /\ pc' = "files"
                     /\ exc' = exc
            ELSE /\ Raise("list_objects")
                 /\ file_objects' = <<>>
                 /\ dir_objects' = <<>>
                 /\ total_bytes' = 0
    /\ UNCHANGED <<fs, dirsize, remote, config, downloaded,
                   new_bytes_downloaded, result, call, req_log, del_log,
                   fetch_failed, marker_failed, touched, ens, fs_pre>>

\* the first loop is over
FilesDone ==
    /\ UNCHANGED verified_idx
    /\ UNCHANGED units
    /\ UNCHANGED faulted
    /\ UNCHANGED past
    /\ pc = "files"
    /\ idx > Len(file_objects)
    /\ pc' = "markers"
    /\ ens' = NoEns
    /\ fs_pre' = NoFs
    /\ UNCHANGED <<fs, dirsize, remote, config, buckets, bucket_name,
                   file_objects, dir_objects, idx, midx, total_bytes,
                   downloaded_bytes, downloaded, new_bytes_downloaded, result,
                   exc, call, req_log, del_log, fetch_failed, marker_failed,
                   list_failed, touched>>

\* the loop body up to the call of download_file_resumable
EnsureDirectory ==
    /\ UNCHANGED verified_idx
    /\ UNCHANGED <<past, units>>
    /\ pc = "files"
    /\ idx <= Len(file_objects)
    /\ \E rfail \in BOOLEAN, mfail \in BOOLEAN :
         LET r == ensure_directory(fs, local_dir, rfail, mfail)
         IN  /\ fs' = r.fs
             /\ ens' = [path |-> local_dir, was_file |-> isfile(fs, local_dir),
                        ok |-> r.ok]
             /\ faulted' = (faulted \/ ~r.ok)
             /\ IF r.ok THEN pc' = "transfer" /\ idx' = idx /\ exc' = exc
                ELSE IF caught("ensure_directory", "Error")
                THEN pc' = "files" /\ idx' = idx + 1 /\ exc' = exc
                ELSE Raise("ensure_directory") /\ idx' = idx
    /\ fs_pre' = fs
    /\ touched' = touched \cup {bucket_name}
    /\ UNCHANGED <<dirsize, remote, config, buckets, bucket_name,
                   file_objects, dir_objects, midx, total_bytes,
                   downloaded_bytes, downloaded, new_bytes_downloaded, result,
                   call, req_log, del_log, fetch_failed, marker_failed,
                   list_failed>>

-----------------------------------------------------------------------------
(* download_file_resumable *)

\* the call, up to the loop (and through it when the loop has nothing to do)
TransferBegin ==
    /\ UNCHANGED verified_idx
    /\ UNCHANGED units
    /\ UNCHANGED faulted
    /\ UNCHANGED past
    /\ pc = "transfer"
    /\ LET current_local_size == local_size(fs, local_path, dirsize)
       IN  /\ call' = [active |-> TRUE, k |-> current_local_size,
                       pre |-> stat(fs, local_path), full |-> TRUE,
                       failure |-> "none"]
           /\ IF already_downloaded(current_local_size, file_size)
              THEN /\ result' = [key |-> key, success |-> TRUE, new_bytes |-> 0]
                   /\ downloaded' = 0
                   /\ pc' = "verify"
              ELSE IF loop_continues(current_local_size, file_size)
              THEN /\ result' = NoResult
                   /\ downloaded' = current_local_size
                   /\ pc' = "fetch"
              ELSE /\ result' = [key |-> key,
                                 success |-> completed(current_local_size, file_size),
                                 new_bytes |-> 0]
                   /\ downloaded' = 0
                   /\ pc' = "verify"
    /\ new_bytes_downloaded' = 0
    /\ req_log' = <<>>
    /\ ens' = NoEns
    /\ fs_pre' = NoFs
    /\ UNCHANGED <<fs, dirsize, remote, config, buckets, bucket_name,
                   file_objects, dir_objects, idx, midx, total_bytes,
                   downloaded_bytes, exc, del_log, fetch_failed, marker_failed,
                   list_failed, touched>>

\* one iteration of the loop; when the loop ends with it, the return
FetchChunk ==
    /\ UNCHANGED verified_idx
    /\ UNCHANGED <<past, units>>
    /\ pc = "fetch"
    /\ LET start == downloaded
           e == end_byte(downloaded, file_size)
           os == Lookup(remote, bucket_name, key)
       IN  /\ req_log' = Append(req_log, <<start, e>>)
           /\ \/ \* get_object raises
                 \E kind \in Kinds :
                   /\ call' = [call EXCEPT !.failure = kind]
                   /\ faulted' = TRUE
                   /\ fetch_failed' = IF downloaded > 0
                                      THEN fetch_failed \cup {<<bucket_name, key>>}
                                      ELSE fetch_failed
                   /\ IF caught("get_object", kind)
                      THEN /\ result' = [key |-> key, success |-> FALSE,
                                         new_bytes |-> new_bytes_downloaded]
                           /\ pc' = "verify"
                           /\ exc' = exc
                      ELSE /\ Raise("get_object")
                           /\ result' = result
                   /\ UNCHANGED <<fs, downloaded, new_bytes_downloaded>>
              \/ \* the read of the body raises
                 /\ ~caught("read", "Error")
                 /\ Raise("read")
                 /\ faulted' = TRUE
                 /\ UNCHANGED <<fs, downloaded, new_bytes_downloaded, result, call,
                                fetch_failed>>
              \/ \* the body holds the first n bytes of the range
                 \E o \in os, n \in 0..(e - start + 1) :
                   LET data == range_data(o, start, n)
                   IN  /\ call' = [call EXCEPT
                                     !.full = call.full /\ n = e - start + 1,
                                     !.failure = IF data = <<>> THEN "stall"
                                                 ELSE call.failure]
                       /\ fetch_failed' = fetch_failed
                       /\ IF data = <<>>
                          THEN /\ faulted' = TRUE
                               /\ result' = [key |-> key,
                                             success |-> completed(downloaded, file_size),
                                             new_bytes |-> new_bytes_downloaded]
                               /\ pc' = "verify"
                               /\ UNCHANGED <<fs, downloaded, new_bytes_downloaded, exc>>
                          ELSE \E written \in 0..Len(data) :
                                 LET w == append(fs, local_path, data, written)
                                 IN  /\ fs' = w.fs
                                     /\ faulted' = (faulted \/ ~w.ok
                                                     \/ n < e - start + 1)
                                     /\ IF ~w.ok
                                        THEN /\ ~caught("append", "Error")
                                             /\ Raise("append")
                                             /\ UNCHANGED <<downloaded,
                                                    new_bytes_downloaded, result>>
                                        ELSE /\ downloaded' = advance(downloaded, data)
                                             /\ new_bytes_downloaded' =
                                                    new_bytes_downloaded + Len(data)
                                             /\ exc' = exc
                                             /\ IF loop_continues(downloaded', file_size)
                                                THEN /\ result' = result
                                                     /\ pc' = "fetch"
                                                ELSE /\ result' =
                                                          [key |-> key,
                                                           success |->
                                                               completed(downloaded', file_size),
                                                           new_bytes |-> new_bytes_downloaded']
                                                     /\ pc' = "verify"
    /\ touched' = touched \cup {bucket_name}
    /\ UNCHANGED <<dirsize, remote, config, buckets, bucket_name,
                   file_objects, dir_objects, idx, midx, total_bytes,
                   downloaded_bytes, del_log, marker_failed, list_failed, ens, fs_pre>>

\* the process is terminated from outside (a signal, a power cut): between
\* two steps, or in the middle of the append of a chunk, of which the first
\* `written` bytes are then in the file
Terminate ==
    /\ pc \notin {"idle", "done", "raised"}
    /\ ProcessEnds
    /\ \/ /\ exc' = "terminated"
          /\ UNCHANGED fs
       \/ /\ pc = "fetch"
          /\ exc' = "terminated in append"
          /\ \E o \in Lookup(remote, bucket_name, key),
                n \in 1..(end_byte(downloaded, file_size) - downloaded + 1) :
                \E written \in 0..(n - 1) :
                  fs' = append(fs, local_path, range_data(o, downloaded, n), written).fs

-----------------------------------------------------------------------------
(* download_bucket_objects, continued *)

\* a delete_object request, as the properties see it
DelRecord(b, k, marker, entry, measured, size) ==
    [bucket |-> b, key |-> k, marker |-> marker, flag |-> delete_file,
     attempt |-> result, entry |-> entry, measured |-> measured, size |-> size]

\* the rest of the loop body: the completeness test and the deletion
Verify ==
    /\ UNCHANGED units
    /\ pc = "verify"
    /\ IF verified(result.success, fs, local_path, file_size, dirsize)
       THEN /\ downloaded_bytes' =
                   downloaded_bytes_after(downloaded_bytes, file_size, result.new_bytes)
            /\ verified_idx' = verified_idx \cup {idx}
            /\ \E o \in Outcomes :
                 LET d == delete_s3_object(remote, bucket_name, key, delete_file, o)
                 IN  /\ remote' = d.remote
                     /\ del_log' =
                          IF d.requested
                          THEN del_log \cup
                               {DelRecord(bucket_name, key, FALSE, stat(fs, local_path),
                                          getsize(fs, local_path, dirsize), file_size)}
                          ELSE del_log
                     /\ touched' = IF d.requested THEN touched \cup {bucket_name}
                                   ELSE touched
                     /\ faulted' = (faulted \/ (d.requested /\ o # "ok"))
                     /\ IF d.raised
                        THEN Raise("delete_object") /\ idx' = idx
                        ELSE pc' = "files" /\ idx' = idx + 1 /\ exc' = exc
       ELSE /\ pc' = "files"
            /\ idx' = idx + 1
            /\ UNCHANGED <<downloaded_bytes, remote, del_log, touched, exc, faulted,
                           verified_idx>>
    /\ fully_downloaded' =
         IF verified(result.success, fs, local_path, file_size, dirsize)
         THEN (fully_downloaded \cup
               {o \in Lookup(remote, bucket_name, key) :
                    stat(fs, local_path) = FileEntry(Content(o))}) \cap remote'
         ELSE fully_downloaded
    /\ result' = NoResult
    /\ call' = NoCall
    /\ req_log' = <<>>
    /\ downloaded' = 0
    /\ new_bytes_downloaded' = 0
    /\ UNCHANGED <<fs, dirsize, config, buckets, bucket_name, file_objects,
                   dir_objects, midx, total_bytes, fetch_failed, marker_failed,
                   list_failed, ens, fs_pre>>

\* the body of the loop over the markers
MarkerStep ==
    /\ UNCHANGED verified_idx
    /\ UNCHANGED <<past, units>>
    /\ pc = "markers"
    /\ midx <= Len(dir_objects)
    /\ LET mkey == dir_objects[midx].Key
           mpath == join(download_dir, bucket_name, mkey)
       IN  \E mfail \in BOOLEAN, o \in Outcomes :
             LET m == IF ~exists(fs, mpath) THEN makedirs(fs, mpath, mfail)
                      ELSE [ok |-> TRUE, fs |-> fs]
                 d == delete_s3_object(remote, bucket_name, mkey, delete_file, o)
             IN  /\ fs' = m.fs
                 /\ faulted' = (faulted \/ ~m.ok \/ (d.requested /\ o # "ok"))
                 /\ IF ~m.ok
                    THEN /\ marker_failed' = marker_failed \cup {<<bucket_name, mkey>>}
                         /\ IF caught("makedirs", "Error")
                            THEN pc' = pc /\ midx' = midx + 1 /\ exc' = exc
                            ELSE Raise("makedirs") /\ midx' = midx
                         /\ UNCHANGED <<remote, del_log>>
                    ELSE /\ marker_failed' = marker_failed
                         /\ remote' = d.remote
                         /\ del_log' =
                              IF d.requested
                              THEN del_log \cup
                                   {DelRecord(bucket_name, mkey, TRUE, stat(m.fs, mpath),
                                              0, 0)}
                              ELSE del_log
                         /\ IF d.raised
                            THEN Raise("delete_object") /\ midx' = midx
                            ELSE pc' = pc /\ midx' = midx + 1 /\ exc' = exc
    /\ touched' = touched \cup {bucket_name}
    /\ UNCHANGED <<dirsize, config, buckets, bucket_name, file_objects,
                   dir_objects, idx, total_bytes, downloaded_bytes, downloaded,
                   new_bytes_downloaded, result, call, req_log, fetch_failed,
                   list_failed, ens, fs_pre>>

\* the loop over the markers is over: download_bucket_objects returns
MarkersDone ==
    /\ UNCHANGED <<past, units>>
    /\ pc = "markers"
    /\ midx > Len(dir_objects)
    /\ pc' = "buckets"
    /\ UNCHANGED <<fs, dirsize, remote, config, buckets, bucket_name,
                   file_objects, dir_objects, idx, midx, total_bytes,
                   downloaded_bytes, downloaded, new_bytes_downloaded, result, hist>>

-----------------------------------------------------------------------------

Next ==
    \/ PutObject
    \/ Start
    \/ Exit
    \/ FleetDone
    \/ SkipBucket
    \/ ListObjects
    \/ FilesDone
    \/ EnsureDirectory
    \/ TransferBegin
    \/ FetchChunk
    \/ Terminate
    \/ Verify
    \/ MarkerStep
    \/ MarkersDone

Spec == Init /\ [][Next]_vars

-----------------------------------------------------------------------------
(* should_ignore_bucket on its own: any name against any rules *)

Categories == <<"starts_with", "ends_with", "contains">>

\* the bucket names and the pattern lists of the calls
IgNames ==
    { <<"t">>, <<"x">>, <<"t", "x">>, <<"x", "t">>, <<"x", "x">>, <<"t", "x", "t">> }
IgLists ==
    { <<>>, << <<"t">> >>, << <<"x">> >>, << <<"t", "x">> >>, << <<"x">>, <<"t">> >> }

\* the ignore_pattern dicts: every category is absent or has a list
IgRules ==
    UNION { [cs -> IgLists] : cs \in SUBSET {Categories[i] : i \in 1..3} }

IgnoreInit ==
    /\ ProgramInit
    /\ tw = NoTw
    /\ \E n \in IgNames, r \in IgRules :
          ig = [at |-> "called", bucket_name |-> n, ignore_patterns |-> r]

\* the call returns; logged is the rule the log line names
IgnoreReturn ==
    /\ ig.at = "called"
    /\ ig' = [at |-> "returned", bucket_name |-> ig.bucket_name,
              ignore_patterns |-> ig.ignore_patterns,
              value |-> should_ignore_bucket(ig.bucket_name, ig.ignore_patterns),
              logged |-> first_match(ig.bucket_name, Categories, ig.ignore_patterns)]
    /\ UNCHANGED <<fs, dirsize, remote, config, prog, hist, past, tw>>

IgnoreNext == IgnoreReturn

IgnoreSpec == IgnoreInit /\ [][IgnoreNext]_vars

-----------------------------------------------------------------------------
(* download_file_resumable on its own: two calls side by side that get the *)
(* same object, the same local file and the same responses, and differ in  *)
(* the arguments that only feed the progress lines                         *)

\* the local path of the calls
TwPath == <<"f">>

\* current_file_number, total_files, downloaded_bytes_total, total_bytes
TwProgress ==
    [current_file_number : {1, 2}, total_files : {1, 2},
     downloaded_bytes_total : {0, 3}, total_bytes : {0, 5}]

\* the local filesystems a call may find: nothing at the path, a directory,
\* or a file with the first j bytes of the object
TwFiles(o) ==
    {NoFs, Put(NoFs, Components(TwPath), DirEntry)}
    \cup {Put(NoFs, Components(TwPath), FileEntry(SubSeq(Content(o), 1, j))) :
              j \in 0..World[o].Size}

\* what the collaborators do at one iteration: get_object raises, the read
\* of the body raises, or the body holds n bytes of which the append writes
\* `written`
TwResponses ==
    [kind : {"ClientError", "Error", "read"}, n : {0}, written : {0}]
    \cup [kind : {"data"}, n : 0..chunk_size, written : 0..chunk_size]

\* the call up to the loop; c is the state of the call: where it is, its
\* filesystem, its locals, the ranges it requested, what it returned and
\* the progress lines it logged
download_file_resumable_begin(f, o, p) ==
    LET expected_size == World[o].Size
        current_local_size == local_size(f, TwPath, dirsize)
        c == [pc |-> "returned", fs |-> f, downloaded |-> 0,
              new_bytes_downloaded |-> 0, req |-> <<>>, result |-> <<TRUE, 0>>,
              shown |-> <<>>]
        pct == percentage(p.downloaded_bytes_total, p.total_bytes)
    IN  IF already_downloaded(current_local_size, expected_size) THEN c
        ELSE IF pct.raised THEN [c EXCEPT !.pc = "raised", !.result = <<>>]
        ELSE LET line == <<p.current_file_number, p.total_files, pct.value>>
             IN  IF loop_continues(current_local_size, expected_size)
                 THEN [c EXCEPT !.pc = "fetch", !.downloaded = current_local_size,
                                !.result = <<>>, !.shown = <<line>>]
                 ELSE [c EXCEPT !.result =
                                   <<completed(current_local_size, expected_size), 0>>,
                                !.shown = <<line>>]

\* one iteration of the loop, and the return when the loop ends with it
download_file_resumable_iteration(c, o, p, resp) ==
    LET expected_size == World[o].Size
        start == c.downloaded
        e == end_byte(c.downloaded, expected_size)
        r == [c EXCEPT !.req = Append(@, <<start, e>>)]
        data == range_data(o, start, Min(resp.n, e - start + 1))
        w == append(c.fs, TwPath, data, Min(resp.written, Len(data)))
        dl == advance(c.downloaded, data)
        nb == c.new_bytes_downloaded + Len(data)
        pct == percentage(p.downloaded_bytes_total + nb, p.total_bytes)
    IN  IF c.pc # "fetch" THEN c
        ELSE IF resp.kind \in Kinds
        THEN IF caught("get_object", resp.kind)
             THEN [r EXCEPT !.pc = "returned",
                            !.result = <<FALSE, c.new_bytes_downloaded>>]
             ELSE [r EXCEPT !.pc = "raised"]
        ELSE IF resp.kind = "read" THEN [r EXCEPT !.pc = "raised"]
        ELSE IF data = <<>>
        THEN [r EXCEPT !.pc = "returned",
                       !.result = <<completed(c.downloaded, expected_size),
                                    c.new_bytes_downloaded>>]
        ELSE IF ~w.ok THEN [r EXCEPT !.pc = "raised", !.fs = w.fs]
        ELSE IF pct.raised
        THEN [r EXCEPT !.pc = "raised", !.fs = w.fs, !.downloaded = dl,
                       !.new_bytes_downloaded = nb]
        ELSE IF loop_continues(dl, expected_size)
        THEN [r EXCEPT !.fs = w.fs, !.downloaded = dl, !.new_bytes_downloaded = nb,
                       !.shown = Append(@, pct.value)]
        ELSE [r EXCEPT !.pc = "returned", !.fs = w.fs, !.downloaded = dl,
                       !.new_bytes_downloaded = nb, !.shown = Append(@, pct.value),
                       !.result = <<completed(dl, expected_size), nb>>]

TwinInit ==
    /\ ProgramInit
    /\ ig = NoIg
    /\ \E o \in {i \in ObjIds : ~endswith(World[i].Key, <<"/">>)} :
          \E f \in TwFiles(o), p1 \in TwProgress, p2 \in TwProgress :
            /\ p1 # p2
            /\ tw = [at |-> "called", o |-> o, f |-> f, p |-> <<p1, p2>>]

\* both calls run up to their loops
TwinBegin ==
    /\ tw.at = "called"
    /\ tw' = [at |-> "running", o |-> tw.o, p |-> tw.p,
              c |-> << download_file_resumable_begin(tw.f, tw.o, tw.p[1]),
                       download_file_resumable_begin(tw.f, tw.o, tw.p[2]) >>]
    /\ UNCHANGED <<fs, dirsize, remote, config, prog, hist, past, ig>>

\* the calls that are in their loops make one iteration, with one response
TwinFetch ==
    /\ tw.at = "running"
    /\ \E i \in 1..2 : tw.c[i].pc = "fetch"
    /\ \E resp \in TwResponses :
          tw' = [tw EXCEPT !.c =
                    << download_file_resumable_iteration(tw.c[1], tw.o, tw.p[1], resp),
                       download_file_resumable_iteration(tw.c[2], tw.o, tw.p[2], resp) >>]
    /\ UNCHANGED <<fs, dirsize, remote, config, prog, hist, past, ig>>

TwinNext ==
    \/ TwinBegin
    \/ TwinFetch

TwinSpec == TwinInit /\ [][TwinNext]_vars

-----------------------------------------------------------------------------
(* Properties *)

PrefixOf(p, c) == Len(p) <= Len(c) /\ SubSeq(c, 1, Len(p)) = p

\* the byte length of an entry as the filesystem reports it
SizeOf(e) == IF e.kind = "dir" THEN dirsize ELSE Len(e.data)

\* the entry at the local path of the current content object
Local == stat(fs, local_path)

\* the current call of download_file_resumable began on a plain file or on
\* no file, and every fetch so far returned its whole range
CleanCall ==
    /\ call.active
    /\ call.pre.kind # "dir"
    /\ call.full
    /\ call.failure = "none"

\* C1: delete_object is requested for a content object only after that
\* object's own transfer of this run returned completed = true and the local
\* size measured after it was at least the listed size.
C1_DeleteAfterOwnVerifiedTransfer ==
    \A d \in del_log :
        ~d.marker =>
            /\ d.attempt.key = d.key
            /\ d.attempt.success
            /\ d.measured >= d.size

\* a content object that this run downloaded was requested to be deleted,
\* after another object's fetch had failed
C1_Witness ==
    /\ fetch_failed # {}
    /\ \E d \in del_log : ~d.marker /\ d.attempt.new_bytes > 0

\* C2: resuming from a correct prefix of k < n bytes with every fetch
\* returning its range, the requests lie in [k, n-1], none overlaps another,
\* the call returns completed = true and the file equals the remote content.
C2_ResumeCorrectness ==
    \A o \in (IF CleanCall THEN Lookup(remote, bucket_name, key) ELSE {}) :
        LET k == Len(call.pre.data)
            n == file_size
        IN  (k < n /\ PrefixOf(call.pre.data, Content(o))) =>
              /\ \A i \in 1..Len(req_log) :
                    k <= req_log[i][1] /\ req_log[i][1] <= req_log[i][2]
                                       /\ req_log[i][2] <= n - 1
              /\ \A i, j \in 1..Len(req_log) :
                    i < j => req_log[i][2] < req_log[j][1]
              /\ pc = "verify" =>
                    /\ result.success
                    /\ result.new_bytes = n - k
                    /\ Local = FileEntry(Content(o))

\* a call that resumed from a non-empty correct prefix has returned
C2_Witness ==
    /\ pc = "verify"
    /\ CleanCall
    /\ Len(call.pre.data) > 0
    /\ Len(call.pre.data) < file_size
    /\ req_log # <<>>
    /\ \E o \in Lookup(remote, bucket_name, key) :
          PrefixOf(call.pre.data, Content(o)) /\ Local = FileEntry(Content(o))

\* C3: a call that begins with the local size >= the remote size makes no
\* range request, leaves the local file as it is and returns (true, 0).
C3_Idempotence ==
    (call.active /\ SizeOf(call.pre) >= file_size) =>
        /\ pc = "verify"
        /\ req_log = <<>>
        /\ result = [key |-> key, success |-> TRUE, new_bytes |-> 0]
        /\ Local = call.pre

\* a call on a complete, non-empty plain file has returned
C3_Witness ==
    /\ pc = "verify"
    /\ call.active
    /\ call.pre.kind = "file"
    /\ file_size > 0
    /\ Len(call.pre.data) >= file_size
    /\ req_log = <<>>

\* C4: a content object one of whose fetches failed after bytes of it were
\* in the local file is not requested to be deleted in that run.
C4_NoDeletionOnPartialFailure ==
    \A d \in del_log : <<d.bucket, d.key>> \notin fetch_failed

\* with deletion configured, a run ended that had such a failure and
\* deleted something else
C4_Witness ==
    /\ pc = "done"
    /\ delete_file
    /\ fetch_failed # {}
    /\ \E d \in del_log : ~d.marker

\* C5: with every fetch returning its whole range, request i of a call that
\* began at k is [k + (i-1) CHUNK, min(k + i CHUNK - 1, size - 1)]; a call
\* that returns has made ceil((size - k) / CHUNK) requests; an object of
\* CHUNK + 1 bytes fetched from nothing takes [0, CHUNK-1] and [CHUNK, CHUNK].
C5_ChunkBoundary ==
    CleanCall =>
        LET k == Len(call.pre.data)
            n == file_size
        IN  /\ \A i \in 1..Len(req_log) :
                  req_log[i] = << k + (i - 1) * chunk_size,
                                  Min(k + i * chunk_size - 1, n - 1) >>
            /\ (pc = "verify" /\ k < n) =>
                  Len(req_log) = (n - k + chunk_size - 1) \div chunk_size
            /\ (pc = "verify" /\ k = 0 /\ n = chunk_size + 1) =>
                  req_log = << <<0, chunk_size - 1>>, <<chunk_size, chunk_size>> >>

\* an object of CHUNK + 1 bytes was fetched from nothing in two requests
C5_Witness ==
    /\ pc = "verify"
    /\ CleanCall
    /\ call.pre = NoEntry
    /\ file_size = chunk_size + 1
    /\ Len(req_log) = 2
    /\ result.success

LeftOver ==
    \/ \E i \in 1..Len(buckets) :
           /\ ~should_ignore_bucket(buckets[i], get(config, "ignore_pattern", NoDict))
           /\ \E o \in remote : World[o].Bucket = buckets[i]
    \/ idx <= Len(file_objects) /\ (idx < Len(file_objects) \/ dir_objects # <<>>)
    \/ idx > Len(file_objects) /\ midx < Len(dir_objects)

\* C7: no failure of one unit (a fetch, a read of the body, a local append,
\* an ensure_directory, a marker's directory, a delete, a listing) ends the
\* run while content objects, markers or buckets are still to be processed.
C7_FailureContained == pc = "raised" => ~LeftOver

\* C8: nothing is done (no directory ensured, no fetch, no deletion) for a
\* bucket whose listing failed, and nothing at all when list_buckets failed.
C8_ListingFailureAborts ==
    /\ list_failed \cap touched = {}
    /\ exc = "list_buckets" => touched = {}

\* C9: delete_object is requested for a marker only with the deletion flag
\* set and a local directory at the marker's path; a marker whose directory
\* could not be made is not deleted, and its failure does not end the loop.
C9_MarkerHandling ==
    /\ \A d \in del_log :
          d.marker => (d.flag /\ d.entry.kind = "dir"
                       /\ <<d.bucket, d.key>> \notin marker_failed)
    /\ marker_failed # {} => exc # "makedirs"

\* the directory of the marker a/ could not be made (a plain file is in
\* the way), and the marker e/ after it was deleted
C9_Witness ==
    /\ <<bucket_name, <<"a", "/">>>> \in marker_failed
    /\ isfile(fs, join(download_dir, bucket_name, <<"a">>))
    /\ \E d \in del_log : d.marker /\ d.key = <<"e", "/">> /\ d.entry.kind = "dir"

\* C10: when ensure_directory returns normally on a path that was a plain
\* file, the path is a directory, the file is at path_file_conflict with its
\* content, and every file content of before is still in some file.
C10_ConflictPreserved ==
    (ens.was_file /\ ens.ok) =>
        /\ isdir(fs, ens.path)
        /\ stat(fs, ens.path \o Suffix) = stat(fs_pre, ens.path)
        /\ \A q \in DOMAIN fs_pre :
              fs_pre[q].kind = "file" => \E r \in DOMAIN fs : fs[r] = fs_pre[q]

\* C11: a content object that an earlier run downloaded in full and that is
\* still remote gets no range request in a later run; its local file stays
\* as it was with the whole content, and the call returns completed = true
\* and the completeness test passes again.
C11_HarmlessRerun ==
    \A o \in (IF call.active THEN Lookup(remote, bucket_name, key) ELSE {}) :
        o \in fully_downloaded =>
            /\ pc = "verify"
            /\ req_log = <<>>
            /\ result = [key |-> key, success |-> TRUE, new_bytes |-> 0]
            /\ Local = FileEntry(Content(o))
            /\ verified(result.success, fs, local_path, file_size, dirsize)

\* no delete_object request is made with delete_after_download false or
\* absent
NoDeleteWithoutFlag == ~delete_file => del_log = {}

\* download_bucket_objects is at its end and no call of the run failed or
\* fell short: the listing of the bucket was complete and every fetch
\* returned its whole range
BucketDoneCleanly ==
    /\ pc = "markers"
    /\ midx > Len(dir_objects)
    /\ ~faulted

\* C12: without the deletion flag no delete_object request is made; and at
\* the end of a bucket in a run where nothing failed, every listed content
\* object has a local file with the remote content and every listed marker
\* has a local directory.
C12_NoDeleteAndAllLocal ==
    /\ NoDeleteWithoutFlag
    /\ (~delete_file /\ BucketDoneCleanly) =>
          /\ \A i \in 1..Len(file_objects) :
                \A o \in ObjIds :
                    (World[o].Bucket = bucket_name /\ World[o].Key = file_objects[i].Key)
                    => stat(fs, join(download_dir, bucket_name, file_objects[i].Key))
                           = FileEntry(Content(o))
          /\ \A i \in 1..Len(dir_objects) :
                isdir(fs, join(download_dir, bucket_name, dir_objects[i].Key))

\* some pattern of the category (none when the category is missing) matches
Matches(name, rules, cat) ==
    \E j \in 1..Len(get(rules, cat, <<>>)) :
        LET p == get(rules, cat, <<>>)[j]
        IN  CASE cat = "starts_with" ->
                    Len(p) <= Len(name) /\ \A i \in 1..Len(p) : name[i] = p[i]
              [] cat = "ends_with" ->
                    Len(p) <= Len(name)
                    /\ \A i \in 1..Len(p) : name[Len(name) - Len(p) + i] = p[i]
              [] OTHER ->
                    \E k \in 0..(Len(name) - Len(p)) :
                        \A i \in 1..Len(p) : name[k + i] = p[i]

\* C13: should_ignore_bucket returns true exactly when the name starts with
\* a starts_with pattern, ends with an ends_with pattern or contains a
\* contains pattern (a missing category is empty); the rule it decides by is
\* of the first category, in the order prefix, suffix, substring, that has
\* a match; a name that matches only a contains rule is ignored.
C13_IgnoreRules ==
    ig.at = "returned" =>
        LET n == ig.bucket_name
            r == ig.ignore_patterns
        IN  /\ ig.value = (\E i \in 1..3 : Matches(n, r, Categories[i]))
            /\ \A i \in 1..3 :
                  (Matches(n, r, Categories[i])
                   /\ \A h \in 1..(i - 1) : ~Matches(n, r, Categories[h]))
                  => (ig.logged # <<>> /\ ig.logged[1] = Categories[i])
            /\ (Matches(n, r, "contains") /\ ~Matches(n, r, "starts_with")
                 /\ ~Matches(n, r, "ends_with")) => ig.value

\* a name was ignored for a contains rule alone, with rules of the other
\* two categories present
C13_Witness ==
    /\ ig.at = "returned"
    /\ ig.value
    /\ ig.logged = <<"contains", <<"x">>>>
    /\ ig.bucket_name = <<"t", "x", "t">>
    /\ DOMAIN ig.ignore_patterns = {"starts_with", "ends_with", "contains"}
    /\ ig.ignore_patterns["starts_with"] # <<>>
    /\ ig.ignore_patterns["ends_with"] # <<>>

\* the local path of a content object of the world
PathOf(o) == join(download_dir, World[o].Bucket, World[o].Key)

\* there is no local file for the object, or a plain file that holds the
\* first bytes of its content
HoldsPrefix(f, o) ==
    \/ stat(f, PathOf(o)).kind = "none"
    \/ /\ stat(f, PathOf(o)).kind = "file"
       /\ PrefixOf(stat(f, PathOf(o)).data, Content(o))

ContentObjects == {o \in ObjIds : ~endswith(World[o].Key, <<"/">>)}

TransferStepSafe ==
    pc \in {"transfer", "fetch", "verify"} =>
        /\ \A o \in ContentObjects : HoldsPrefix(fs, o) => HoldsPrefix(fs', o)
        /\ \A o \in Lookup(remote, bucket_name, key) :
              (pc = "transfer" /\ pc' = "fetch" /\ HoldsPrefix(fs, o))
              => downloaded' = Len(stat(fs, local_path).data)

\* C14: a step of a transfer (the size test, a fetch and its append, the
\* return, a termination of the process between two steps or in the middle
\* of an append) keeps the local file of every content object a prefix of
\* the remote content when it was absent or a prefix before; and the loop
\* of a call that begins on such a file starts at the length of the file.
C14_CrashSafety == [][TransferStepSafe]_vars

\* a process was terminated in the middle of an append and left the first
\* byte of object a; the call of the next run began at byte 1 and has
\* completed the file
C14_Witness ==
    /\ pc = "verify"
    /\ key = <<"a">>
    /\ call.pre = FileEntry(<<11>>)
    /\ call.k = 1
    /\ result.success
    /\ Local = FileEntry(Content(1))

\* C15: when a fetch returns no byte while the local size is below the
\* remote size, the call returns at once with completed = false and the
\* bytes it appended before; a call returns completed = true only when the
\* size it began with plus the bytes it appended has reached the remote size.
C15_StallHandling ==
    /\ (call.active /\ call.failure = "stall") =>
          /\ pc = "verify"
          /\ result.key = key
          /\ ~result.success
          /\ result.new_bytes = Len(Local.data) - Len(call.pre.data)
          /\ \A i \in 1..(Len(req_log) - 1) : req_log[i][1] < req_log[i + 1][1]
          /\ req_log[Len(req_log)][1] = call.k + result.new_bytes
          /\ req_log[Len(req_log)][1] < file_size
    /\ (call.active /\ pc = "verify" /\ result.success) =>
          call.k + result.new_bytes >= file_size

\* the second fetch of a call returned no byte
C15_Witness ==
    /\ pc = "verify"
    /\ call.failure = "stall"
    /\ Len(req_log) = 2
    /\ result.new_bytes > 0
    /\ ~result.success
    /\ Len(Local.data) < file_size

\* what a call of download_file_resumable does and returns, without the
\* progress lines
Outcome(c) == [pc |-> c.pc, fs |-> c.fs, req |-> c.req, result |-> c.result]

\* C16: two calls of download_file_resumable with the same object, local
\* file and responses that differ in current_file_number, total_files,
\* downloaded_bytes_total or total_bytes (0 included) make the same range
\* requests, append the same bytes and return the same.
C16_ProgressIsObservability ==
    tw.at = "running" => Outcome(tw.c[1]) = Outcome(tw.c[2])

\* two calls, one of them with total_bytes = 0, fetched an object in two
\* requests, showed different progress lines and returned completed = true
C16_Witness ==
    /\ tw.at = "running"
    /\ tw.p[1].total_bytes = 0
    /\ tw.p[2].total_bytes > 0
    /\ tw.p[2].downloaded_bytes_total > 0
    /\ tw.c[1].shown # tw.c[2].shown
    /\ Len(tw.c[1].req) = 2
    /\ tw.c[1].pc = "returned"
    /\ tw.c[1].result = <<TRUE, 3>>
    /\ tw.c[2].result = <<TRUE, 3>>

\* download_bucket_objects is in one of its loops
InBucket == pc \in {"files", "transfer", "fetch", "verify", "markers"}

\* the sum of the listed sizes of the content objects with these indices
RECURSIVE ListedSize(_)
ListedSize(I) ==
    IF I = {} THEN 0
    ELSE LET i == CHOOSE j \in I : TRUE
         IN  get(file_objects[i], "Size", 0) + ListedSize(I \ {i})

CounterIsVerifiedSum ==
    InBucket =>
        /\ verified_idx \subseteq 1..Len(file_objects)
        /\ downloaded_bytes = ListedSize(verified_idx)
        /\ downloaded_bytes <= total_bytes

\* C17 as stated: the counter is the sum of the listed sizes of the content
\* objects verified so far, it never exceeds total_bytes, and it equals
\* total_bytes exactly when every content object was verified.
C17_ProgressAccounting ==
    /\ CounterIsVerifiedSum
    /\ InBucket =>
          (downloaded_bytes = total_bytes
           <=> verified_idx = 1..Len(file_objects))

\* C17, amended: ... and it equals total_bytes exactly when every content
\* object of a listed size above 0 was verified.
C17_ProgressAccountingAmended ==
    /\ CounterIsVerifiedSum
    /\ InBucket =>
          (downloaded_bytes = total_bytes
           <=> \A i \in 1..Len(file_objects) :
                  get(file_objects[i], "Size", 0) > 0 => i \in verified_idx)

\* a bucket is done with the counter at total_bytes above 0: an object
\* with a local file was verified and counted, and an object of 0 bytes was
\* not verified
C17_Witness ==
    /\ pc = "markers"
    /\ total_bytes > 0
    /\ downloaded_bytes = total_bytes
    /\ verified_idx # {}
    /\ verified_idx # 1..Len(file_objects)
    /\ \E i \in verified_idx :
          stat(fs, join(download_dir, bucket_name, file_objects[i].Key)).kind = "file"

\* C18: every range request of a call starts at the byte length of the
\* local file as it is then (the cursor of the loop and the file agree, also
\* after a fetch that returned fewer bytes than requested), and
\* start <= end <= size - 1.
C18_OffsetTracksFile ==
    /\ pc = "fetch" =>
          /\ downloaded = SizeOf(Local)
          /\ downloaded = call.k + new_bytes_downloaded
          /\ downloaded <= end_byte(downloaded, file_size)
          /\ end_byte(downloaded, file_size) <= file_size - 1
    /\ \A i \in 1..Len(req_log) :
          req_log[i][1] <= req_log[i][2] /\ req_log[i][2] <= file_size - 1

\* a fetch returned one byte of the two requested, and the next request of
\* the call starts at byte 1
C18_Witness ==
    /\ pc = "fetch"
    /\ call.pre = NoEntry
    /\ ~call.full
    /\ req_log = << <<0, chunk_size - 1>> >>
    /\ downloaded = 1
    /\ Local = FileEntry(<<11>>)

\* C19: whenever delete_object is requested for a content object, its local
\* path is a plain file that holds the whole remote content.
C19_DeleteOnlyWithLocalCopy ==
    \A d \in del_log :
        ~d.marker =>
            \A o \in ObjIds :
                (World[o].Bucket = d.bucket /\ World[o].Key = d.key)
                => d.entry = FileEntry(Content(o))

\* C20: a call that begins below the remote size issues at most
\* (size - initial local size) range requests, whatever the fetches return.
C20_BoundedFetches ==
    (call.active /\ call.k < file_size) => Len(req_log) <= file_size - call.k

\* an object of 3 bytes was fetched from nothing one byte at a time, in 3
\* requests
C20_Witness ==
    /\ pc = "verify"
    /\ call.pre = NoEntry
    /\ file_size = 3
    /\ req_log = << <<0, 1>>, <<1, 2>>, <<2, 2>> >>
    /\ result = [key |-> key, success |-> TRUE, new_bytes |-> 3]

====
